---------------------------- MODULE Spec2Model ----------------------------
(***************************************************************************)
(* A model of examples/c-bindings.c: the recursive printer json_print over  *)
(* the C-ABI Json tree, and the driver main (deserialize, print, free).     *)
(*                                                                          *)
(* Text is a sequence of one-character strings.  A byte buffer is such a    *)
(* sequence too, with NUL standing for the zero byte.  A number is held in  *)
(* ticks of 10^-(FracDigits+1), one decimal digit finer than "%f" prints.   *)
(***************************************************************************)
EXTENDS Integers, Sequences, FiniteSets, TLC

VARIABLES
    mainpc,      \* position of the driver: "L62", "L64", "L66", "L67", or "harness"
    text,        \* the document handed to json_deserialize
    json,        \* main's local `json`: the root value returned by json_deserialize
    arena,       \* the tree's memory: [state |-> "none" | "live" | "freed", tree |-> root]
    stack,       \* the call stack of json_print: a sequence of frames, top last
    out,         \* the characters written to stdout by the current json_print call
    fieldReads,  \* fields of the by-value `json` argument read: {[path, field]}
    derefs,      \* reads through pointers into the arena: {[path, ptr, len, live]}
    spans,       \* path -> [from, to]: the part of out each returned call wrote
    keySpans,    \* path of an entry's value -> [from, to]: the part of out its key took
    visits,      \* paths of the nodes json_print was entered on, in order
    maxDepth,    \* the largest number of json_print frames alive at once
    calls,       \* number of top-level json_print calls made
    outs,        \* the outputs of the earlier top-level json_print calls
    nDeserialize,\* number of json_deserialize calls
    nFree,       \* number of json_free calls
    freeArg      \* the value handed to json_free

vars == <<mainpc, text, json, arena, stack, out, fieldReads, derefs, spans,
          keySpans, visits, maxDepth, calls, outs, nDeserialize, nFree, freeArg>>

(***************************************************************************)
(* Bounds of the model.                                                     *)
(***************************************************************************)
\* Largest len of a generated Array or Object.
MaxLen == 2
\* Number of json_print calls the harness makes on one root.
MaxCalls == 2

(***************************************************************************)
(* The value model: Tag, JsonString, JsonArray, JsonEntry, JsonObject, Json *)
(***************************************************************************)
NUL == "NUL"
NoJson == [tag |-> "none"]

\* The discriminants json_print has a case for.
Tags == {"Null", "True", "False", "Number", "String", "Array", "Object"}
\* A discriminant outside the enum (an implementation's extra variant).
ErrorTag == "Error"

\* JsonString: buf points to the bytes followed by a NUL; len counts the bytes.
\* An empty string has a buffer too, holding the NUL alone.
JsonString(bytes) == [buf |-> Append(bytes, NUL), len |-> Len(bytes)]

JNull == [tag |-> "Null"]
JTrue == [tag |-> "True"]
JFalse == [tag |-> "False"]
JError == [tag |-> ErrorTag]
JNumber(n) == [tag |-> "Number", number |-> n]
JString(bytes) == [tag |-> "String", string |-> JsonString(bytes)]
JArray(es) == [tag |-> "Array", array |-> [elems |-> es, len |-> Len(es)]]
JEntry(k, v) == [key |-> JsonString(k), val |-> v]
JObject(es) == [tag |-> "Object", object |-> [elems |-> es, len |-> Len(es)]]

\* The children of a node, in stored order (an Object's are its entries' values).
Children(n) ==
    IF n.tag = "Array" THEN n.array.elems
    ELSE IF n.tag = "Object" THEN [k \in 1..n.object.len |-> n.object.elems[k].val]
    ELSE <<>>

\* The node a path of 0-based indices leads to from root.
RECURSIVE NodeAt(_, _)
NodeAt(root, path) ==
    IF path = <<>> THEN root
    ELSE NodeAt(Children(root)[Head(path) + 1], Tail(path))

RECURSIVE Pow10(_)
Pow10(k) == IF k = 0 THEN 1 ELSE 10 * Pow10(k - 1)

\* "%f" prints six digits after the point.
FracDigits == 6
TicksPerUnit == Pow10(FracDigits + 1)

(***************************************************************************)
(* printf's conversions                                                     *)
(***************************************************************************)
\* "%s": the bytes at buf up to, not including, the first zero byte.
CStr(buf) ==
    LET n == CHOOSE k \in 1..Len(buf) :
                 buf[k] = NUL /\ \A j \in 1..(k - 1) : buf[j] # NUL
    IN SubSeq(buf, 1, n - 1)

DigitChar(d) == <<"0", "1", "2", "3", "4", "5", "6", "7", "8", "9">>[d + 1]

RECURSIVE Digits(_)
Digits(n) ==
    IF n < 10 THEN <<DigitChar(n)>>
    ELSE Append(Digits(n \div 10), DigitChar(n % 10))

\* n written with exactly w digits, zero-padded on the left.
RECURSIVE PadDigits(_, _)
PadDigits(n, w) ==
    IF w = 0 THEN <<>>
    ELSE Append(PadDigits(n \div 10, w - 1), DigitChar(n % 10))

\* Fmt_f without the zero padding of the fraction (as "%g" would drop zeros).
Fmt_f_Unpadded(x) ==
    LET a == IF x < 0 THEN -x ELSE x
        m == (a + 5) \div 10
        unit == Pow10(FracDigits)
    IN (IF x < 0 THEN <<"-">> ELSE <<>>)
       \o Digits(m \div unit) \o <<".">> \o Digits(m % unit)

\* "%f" of x ticks: sign, integer part, '.', FracDigits digits, rounded to
\* nearest (the generated numbers never sit on a tie).
Fmt_f(x) ==
    LET a == IF x < 0 THEN -x ELSE x
        m == (a + 5) \div 10
        unit == Pow10(FracDigits)
    IN (IF x < 0 THEN <<"-">> ELSE <<>>)
       \o Digits(m \div unit) \o <<".">> \o PadDigits(m % unit, FracDigits)

\* BelowLenMinus1 with the bound off by one: `i < len`, a separator after
\* every element, the last one too.
BelowLen(i, len) == i < len

\* `i < len - 1` on unsigned long: for len = 0 the right side wraps to
\* ULONG_MAX, which every index is below.
BelowLenMinus1(i, len) == IF len = 0 THEN TRUE ELSE i < len - 1

(***************************************************************************)
(* json_print (lines 7-48) as steps of its top frame.  A frame holds the    *)
(* by-value argument `json`, the path of that node in the tree, the line    *)
(* the frame is at, the loop counter i, and the length of out on entry.     *)
(***************************************************************************)
Max(a, b) == IF a > b THEN a ELSE b

Top == stack[Len(stack)]
Rest == SubSeq(stack, 1, Len(stack) - 1)
At(line) == stack # <<>> /\ Top.pc = line

Frame(j, p, start) == [json |-> j, path |-> p, pc |-> "L8", i |-> 0, from |-> start]

\* A read through a pointer into the arena is recorded with whether the
\* arena was live.  Reading released memory is undefined; the model goes on
\* with the stale contents and keeps the record of the read.
Live == arena.state = "live"
FieldRead(f, name) == [path |-> f.path, field |-> name]
Deref(f, name, n) == [path |-> f.path, ptr |-> name, len |-> n, live |-> Live]

DriverUnchanged ==
    UNCHANGED <<mainpc, text, json, arena, calls, outs, nDeserialize, nFree, freeArg>>

\* The top frame moves on to f2, having written `emitted`.
Advance(f2, emitted, fr, dr) ==
    /\ stack' = Append(Rest, f2)
    /\ out' = out \o emitted
    /\ fieldReads' = fieldReads \cup fr
    /\ derefs' = derefs \cup dr
    /\ UNCHANGED <<spans, keySpans, visits, maxDepth>>
    /\ DriverUnchanged

\* The top frame writes `emitted` and returns to its caller.
Return(emitted, fr, dr) ==
    /\ stack' = Rest
    /\ out' = out \o emitted
    /\ fieldReads' = fieldReads \cup fr
    /\ derefs' = derefs \cup dr
    /\ spans' = (Top.path :> [from |-> Top.from, to |-> Len(out')]) @@ spans
    /\ UNCHANGED <<keySpans, visits, maxDepth>>
    /\ DriverUnchanged

\* The top frame, continuing at f2 afterwards, calls json_print(e) on child k.
Recurse(f2, e, k, fr, dr) ==
    /\ stack' = Rest \o <<f2, Frame(e, Append(Top.path, k), Len(out))>>
    /\ fieldReads' = fieldReads \cup fr
    /\ derefs' = derefs \cup dr
    /\ visits' = Append(visits, Append(Top.path, k))
    /\ maxDepth' = Max(maxDepth, Len(stack'))
    /\ UNCHANGED <<out, spans, keySpans>>
    /\ DriverUnchanged

\* SwitchTarget without the default label: an unknown tag lands in the last
\* case of the switch.
SwitchTarget_NoDefault(tag) ==
    CASE tag = "Array" -> "L10"
      [] tag = "Number" -> "L20"
      [] tag = "Object" -> "L23"
      [] tag = "String" -> "L34"
      [] tag = "True" -> "L37"
      [] tag = "False" -> "L40"
      [] OTHER -> "L43"

\* Line 8: switch (json.tag).
SwitchTarget(tag) ==
    CASE tag = "Array" -> "L10"
      [] tag = "Number" -> "L20"
      [] tag = "Object" -> "L23"
      [] tag = "String" -> "L34"
      [] tag = "True" -> "L37"
      [] tag = "False" -> "L40"
      [] tag = "Null" -> "L43"
      [] OTHER -> "L46"

Switch ==
    /\ At("L8")
    /\ Advance([Top EXCEPT !.pc = SwitchTarget(Top.json.tag)], <<>>,
               {FieldRead(Top, "tag")}, {})

\* Lines 10-11: printf("["); i = 0.
ArrayOpen ==
    /\ At("L10")
    /\ Advance([Top EXCEPT !.pc = "L11", !.i = 0], <<"[">>, {}, {})

\* Line 11: i < json.array.len.
ArrayLoop ==
    /\ At("L11")
    /\ Advance([Top EXCEPT !.pc = IF Top.i < Top.json.array.len THEN "L12" ELSE "L17"],
               <<>>, {FieldRead(Top, "array.len")}, {})

\* The tree with the node at path replaced by m.
RECURSIVE ReplaceAt(_, _, _)
ReplaceAt(n, path, m) ==
    IF path = <<>> THEN m
    ELSE IF n.tag = "Array"
        THEN [n EXCEPT !.array.elems[Head(path) + 1] = ReplaceAt(@, Tail(path), m)]
    ELSE [n EXCEPT !.object.elems[Head(path) + 1].val = ReplaceAt(@, Tail(path), m)]

\* ArrayElem that moves the element out of the tree: the slot it copied e
\* from is overwritten with a Null value.
ArrayElem_Consuming ==
    /\ At("L12")
    /\ stack' = Rest \o <<[Top EXCEPT !.pc = "L14"],
                          Frame(NodeAt(arena.tree, Append(Top.path, Top.i)),
                                Append(Top.path, Top.i), Len(out))>>
    /\ arena' = [arena EXCEPT !.tree = ReplaceAt(@, Append(Top.path, Top.i), JNull)]
    /\ fieldReads' = fieldReads \cup {FieldRead(Top, "array.elems")}
    /\ derefs' = derefs \cup {Deref(Top, "array.elems", Top.json.array.len)}
    /\ visits' = Append(visits, Append(Top.path, Top.i))
    /\ maxDepth' = Max(maxDepth, Len(stack'))
    /\ UNCHANGED <<out, spans, keySpans, mainpc, text, json, calls, outs,
                   nDeserialize, nFree, freeArg>>

\* Lines 12-13: Json e = json.array.elems[i]; json_print(e).
ArrayElem ==
    /\ At("L12")
    /\ Recurse([Top EXCEPT !.pc = "L14"],
               NodeAt(arena.tree, Append(Top.path, Top.i)), Top.i,
               {FieldRead(Top, "array.elems")},
               {Deref(Top, "array.elems", Top.json.array.len)})

\* ArraySep with the counter stepped twice (an i++ in the body as well as in
\* the for header).
ArraySep_SkipsOne ==
    /\ At("L14")
    /\ Advance([Top EXCEPT !.pc = "L11", !.i = Top.i + 2],
               IF BelowLenMinus1(Top.i, Top.json.array.len) THEN <<",", " ">> ELSE <<>>,
               {FieldRead(Top, "array.len")}, {})

\* Lines 14-15 and i++: if (i < json.array.len - 1) printf(", ").
ArraySep ==
    /\ At("L14")
    /\ Advance([Top EXCEPT !.pc = "L11", !.i = Top.i + 1],
               IF BelowLenMinus1(Top.i, Top.json.array.len) THEN <<",", " ">> ELSE <<>>,
               {FieldRead(Top, "array.len")}, {})

\* Lines 17-18: printf("]"); break.
ArrayClose ==
    /\ At("L17")
    /\ Return(<<"]">>, {}, {})

\* Lines 20-21: printf("%f", json.number); break.
NumberPrint ==
    /\ At("L20")
    /\ Return(Fmt_f(Top.json.number), {FieldRead(Top, "number")}, {})

\* Lines 23-24: printf("{"); i = 0.
ObjectOpen ==
    /\ At("L23")
    /\ Advance([Top EXCEPT !.pc = "L24", !.i = 0], <<"{">>, {}, {})

\* Line 24: i < json.object.len.
ObjectLoop ==
    /\ At("L24")
    /\ Advance([Top EXCEPT !.pc = IF Top.i < Top.json.object.len THEN "L25" ELSE "L31"],
               <<>>, {FieldRead(Top, "object.len")}, {})

\* The entry json.object.elems[i], read from the arena.
EntryAt(f) == NodeAt(arena.tree, f.path).object.elems[f.i + 1]

\* Lines 25-26: s = json.object.elems[i].key; printf("%s : ", s.buf).
ObjectKey ==
    /\ At("L25")
    /\ stack' = Append(Rest, [Top EXCEPT !.pc = "L27"])
    /\ out' = out \o CStr(EntryAt(Top).key.buf) \o <<" ", ":", " ">>
    /\ keySpans' = (Append(Top.path, Top.i) :>
                        [from |-> Len(out),
                         to |-> Len(out) + Len(CStr(EntryAt(Top).key.buf))])
                    @@ keySpans
    /\ fieldReads' = fieldReads \cup {FieldRead(Top, "object.elems")}
    /\ derefs' = derefs \cup {Deref(Top, "object.elems", Top.json.object.len),
                              Deref(Top, "key.buf", EntryAt(Top).key.len)}
    /\ UNCHANGED <<spans, visits, maxDepth>>
    /\ DriverUnchanged

\* Line 27: json_print(*json.object.elems[i].val).
ObjectVal ==
    /\ At("L27")
    /\ Recurse([Top EXCEPT !.pc = "L28"], EntryAt(Top).val, Top.i,
               {FieldRead(Top, "object.elems")},
               {Deref(Top, "object.elems", Top.json.object.len),
                Deref(Top, "val", Top.json.object.len)})

\* Lines 28-29 and i++: if (i < json.object.len - 1) printf(", ").
ObjectSep ==
    /\ At("L28")
    /\ Advance([Top EXCEPT !.pc = "L24", !.i = Top.i + 1],
               IF BelowLenMinus1(Top.i, Top.json.object.len) THEN <<",", " ">> ELSE <<>>,
               {FieldRead(Top, "object.len")}, {})

\* Lines 31-32: printf("}"); break.
ObjectClose ==
    /\ At("L31")
    /\ Return(<<"}">>, {}, {})

\* StringPrint with the format of the keys: "%s" without the quotes.
StringPrint_NoQuotes ==
    /\ At("L34")
    /\ Return(CStr(Top.json.string.buf),
              {FieldRead(Top, "string.buf")},
              {Deref(Top, "string.buf", Top.json.string.len)})

\* Lines 34-35: printf("\"%s\"", json.string.buf); break.
StringPrint ==
    /\ At("L34")
    /\ Return(<<"\"">> \o CStr(Top.json.string.buf) \o <<"\"">>,
              {FieldRead(Top, "string.buf")},
              {Deref(Top, "string.buf", Top.json.string.len)})

\* Lines 37-38, 40-41, 43-44.
TruePrint == At("L37") /\ Return(<<"t", "r", "u", "e">>, {}, {})
FalsePrint == At("L40") /\ Return(<<"f", "a", "l", "s", "e">>, {}, {})
NullPrint == At("L43") /\ Return(<<"n", "u", "l", "l">>, {}, {})

\* Lines 45-46: default: break.
DefaultSkip == At("L46") /\ Return(<<>>, {}, {})

json_print ==
    \/ Switch
    \/ ArrayOpen \/ ArrayLoop \/ ArrayElem \/ ArraySep \/ ArrayClose
    \/ NumberPrint
    \/ ObjectOpen \/ ObjectLoop \/ ObjectKey \/ ObjectVal \/ ObjectSep \/ ObjectClose
    \/ StringPrint
    \/ TruePrint \/ FalsePrint \/ NullPrint
    \/ DefaultSkip

\* A top-level call json_print(j): the first frame, on a fresh output record.
CallPrint(j) ==
    /\ stack' = <<Frame(j, <<>>, 0)>>
    /\ out' = <<>>
    /\ outs' = IF calls > 0 THEN Append(outs, out) ELSE outs
    /\ calls' = calls + 1
    /\ spans' = <<>>
    /\ keySpans' = <<>>
    /\ visits' = <<(<<>>)>>
    /\ maxDepth' = Max(maxDepth, 1)
    /\ UNCHANGED <<fieldReads, derefs>>

(***************************************************************************)
(* json_print as a function of any Json value: the harness calls it         *)
(* MaxCalls times, one call after the other, on one root drawn from Trees.  *)
(***************************************************************************)
Numbers ==
    {0, 12 * TicksPerUnit, 15 * Pow10(FracDigits), -225 * Pow10(FracDigits - 1),
     1, 2 * TicksPerUnit - 1}
ByteStrings == {<<>>, <<"h", "i">>, <<"a", NUL, "b">>, <<"a", "\"", "b">>}
Keys == {<<"k">>, <<"a", NUL, "b">>}

Scalars ==
    {JNull, JTrue, JFalse, JError}
        \cup {JNumber(n) : n \in Numbers}
        \cup {JString(b) : b \in ByteStrings}

\* What a generated Array or Object holds: leaves and nested containers.
Elems ==
    {JNumber(12 * TicksPerUnit), JString(<<"h", "i">>), JError,
     JArray(<<>>), JObject(<<JEntry(<<"x">>, JNumber(2 * TicksPerUnit))>>)}

SeqsUpTo(S, n) == UNION {[1..k -> S] : k \in 0..n}

\* {"": ""}: an empty key and an empty string.
EdgeTrees == {JObject(<<JEntry(<<>>, JString(<<>>))>>)}

Trees ==
    Scalars
        \cup EdgeTrees
        \cup {JArray(es) : es \in SeqsUpTo(Elems, MaxLen)}
        \cup {JObject(es) :
                es \in SeqsUpTo({JEntry(k, v) : k \in Keys, v \in Elems}, MaxLen)}

\* One more json_print(root) from the harness.
HarnessCall ==
    /\ mainpc = "harness"
    /\ stack = <<>>
    /\ calls < MaxCalls
    /\ CallPrint(json)
    /\ UNCHANGED <<mainpc, text, json, arena, nDeserialize, nFree, freeArg>>

InitPrint ==
    /\ mainpc = "harness"
    /\ text = <<>>
    /\ json \in Trees
    /\ arena = [state |-> "live", tree |-> json]
    /\ stack = <<>>
    /\ out = <<>>
    /\ fieldReads = {}
    /\ derefs = {}
    /\ spans = <<>>
    /\ keySpans = <<>>
    /\ visits = <<>>
    /\ maxDepth = 0
    /\ calls = 0
    /\ outs = <<>>
    /\ nDeserialize = 0
    /\ nFree = 0
    /\ freeArg = NoJson

(***************************************************************************)
(* json_deserialize and json_free.  Their code is behind the boundary; the  *)
(* parser below follows the contract: a JSON document (literals, numbers    *)
(* without exponent, strings with the escapes \" \\ \/ and \u0000, arrays,  *)
(* objects, whitespace) becomes the tree of its values in document order,   *)
(* numbers as doubles (here: ticks), strings decoded and NUL-terminated.    *)
(***************************************************************************)
Failed(p) == [ok |-> FALSE, val |-> NoJson, pos |-> p]
Parsed(v, p) == [ok |-> TRUE, val |-> v, pos |-> p]

IsDigit(c) == c \in {"0", "1", "2", "3", "4", "5", "6", "7", "8", "9"}
DigitVal(c) == CHOOSE d \in 0..9 : DigitChar(d) = c

RECURSIVE SkipWs(_, _)
SkipWs(t, p) ==
    IF p <= Len(t) /\ t[p] \in {" ", "\n", "\t", "\r"} THEN SkipWs(t, p + 1) ELSE p

StartsWith(t, p, lit) ==
    /\ p + Len(lit) - 1 <= Len(t)
    /\ SubSeq(t, p, p + Len(lit) - 1) = lit

\* The first position at or after p that holds no digit.
RECURSIVE DigitsEnd(_, _)
DigitsEnd(t, p) == IF p <= Len(t) /\ IsDigit(t[p]) THEN DigitsEnd(t, p + 1) ELSE p

\* The value of the digits t[p..q-1].
RECURSIVE DigitsValue(_, _, _)
DigitsValue(t, p, q) ==
    IF q <= p THEN 0 ELSE 10 * DigitsValue(t, p, q - 1) + DigitVal(t[q - 1])

\* The fraction digits t[p..q-1] in ticks; digits finer than a tick are dropped.
FracTicks(t, p, q) ==
    LET n == IF q - p > FracDigits + 1 THEN FracDigits + 1 ELSE q - p
    IN DigitsValue(t, p, p + n) * Pow10(FracDigits + 1 - n)

ParseNumber(t, p) ==
    LET neg == p <= Len(t) /\ t[p] = "-"
        p1 == IF neg THEN p + 1 ELSE p
        p2 == DigitsEnd(t, p1)
        hasFrac == p2 <= Len(t) /\ t[p2] = "."
        p3 == IF hasFrac THEN DigitsEnd(t, p2 + 1) ELSE p2
        mag == DigitsValue(t, p1, p2) * TicksPerUnit
                 + (IF hasFrac THEN FracTicks(t, p2 + 1, p3) ELSE 0)
    IN IF p2 = p1 \/ (hasFrac /\ p3 = p2 + 1) THEN Failed(p)
       ELSE Parsed(JNumber(IF neg THEN -mag ELSE mag), p3)

\* The bytes of a string literal whose opening quote is before p.
RECURSIVE ParseBytes(_, _, _)
ParseBytes(t, p, acc) ==
    IF p > Len(t) \/ t[p] = NUL THEN Failed(p)
    ELSE IF t[p] = "\"" THEN Parsed(acc, p + 1)
    ELSE IF t[p] # "\\" THEN ParseBytes(t, p + 1, Append(acc, t[p]))
    ELSE IF p + 1 > Len(t) THEN Failed(p)
    ELSE IF t[p + 1] \in {"\"", "\\", "/"}
        THEN ParseBytes(t, p + 2, Append(acc, t[p + 1]))
    ELSE IF StartsWith(t, p + 1, <<"u", "0", "0", "0", "0">>)
        THEN ParseBytes(t, p + 6, Append(acc, NUL))
    ELSE Failed(p)

RECURSIVE ParseValue(_, _)
RECURSIVE ParseElems(_, _, _)
RECURSIVE ParseEntries(_, _, _)

\* The elements after '[' or ',' up to the closing ']'.
ParseElems(t, p, acc) ==
    LET v == ParseValue(t, p)
        q == SkipWs(t, v.pos)
    IN IF ~v.ok \/ q > Len(t) THEN Failed(p)
       ELSE IF t[q] = "," THEN ParseElems(t, q + 1, Append(acc, v.val))
       ELSE IF t[q] = "]" THEN Parsed(JArray(Append(acc, v.val)), q + 1)
       ELSE Failed(q)

\* The entries after '{' or ',' up to the closing '}'.
ParseEntries(t, p, acc) ==
    LET k0 == SkipWs(t, p)
        k == IF k0 <= Len(t) /\ t[k0] = "\"" THEN ParseBytes(t, k0 + 1, <<>>)
             ELSE Failed(k0)
        c == SkipWs(t, k.pos)
        v == IF k.ok /\ c <= Len(t) /\ t[c] = ":" THEN ParseValue(t, c + 1)
             ELSE Failed(c)
        q == SkipWs(t, v.pos)
        e == [key |-> JsonString(k.val), val |-> v.val]
    IN IF ~v.ok \/ q > Len(t) THEN Failed(p)
       ELSE IF t[q] = "," THEN ParseEntries(t, q + 1, Append(acc, e))
       ELSE IF t[q] = "}" THEN Parsed(JObject(Append(acc, e)), q + 1)
       ELSE Failed(q)

ParseValue(t, p0) ==
    LET p == SkipWs(t, p0)
        s == IF p <= Len(t) /\ t[p] = "\"" THEN ParseBytes(t, p + 1, <<>>)
             ELSE Failed(p)
        inner == SkipWs(t, p + 1)
    IN IF p > Len(t) THEN Failed(p)
       ELSE IF StartsWith(t, p, <<"n", "u", "l", "l">>) THEN Parsed(JNull, p + 4)
       ELSE IF StartsWith(t, p, <<"t", "r", "u", "e">>) THEN Parsed(JTrue, p + 4)
       ELSE IF StartsWith(t, p, <<"f", "a", "l", "s", "e">>) THEN Parsed(JFalse, p + 5)
       ELSE IF t[p] = "\"" THEN
           (IF s.ok THEN Parsed([tag |-> "String", string |-> JsonString(s.val)], s.pos)
            ELSE Failed(p))
       ELSE IF t[p] = "[" THEN
           (IF inner <= Len(t) /\ t[inner] = "]" THEN Parsed(JArray(<<>>), inner + 1)
            ELSE ParseElems(t, p + 1, <<>>))
       ELSE IF t[p] = "{" THEN
           (IF inner <= Len(t) /\ t[inner] = "}" THEN Parsed(JObject(<<>>), inner + 1)
            ELSE ParseEntries(t, p + 1, <<>>))
       ELSE IF t[p] = "-" \/ IsDigit(t[p]) THEN ParseNumber(t, p)
       ELSE Failed(p)

\* The whole text as one document.
ParseDocument(t) ==
    LET r == ParseValue(t, 1)
    IN IF r.ok /\ SkipWs(t, r.pos) > Len(t) THEN r ELSE Failed(1)

\* json_deserialize(text): the parsed tree; for a text that does not parse,
\* either of the two designs the contract allows (a Null sentinel, or a
\* variant outside the seven tags).
json_deserialize(t) ==
    IF ParseDocument(t).ok THEN {ParseDocument(t).val} ELSE {JNull, JError}

\* json_free(j) on the arena: the live tree's root releases it; anything
\* else (a second release, another value) is undefined behaviour.
json_free(a, j) ==
    IF a.state = "live" /\ j = a.tree THEN [a EXCEPT !.state = "freed"]
    ELSE [a EXCEPT !.state = "corrupt"]

(***************************************************************************)
(* main (lines 50-67)                                                       *)
(***************************************************************************)
\* The document of main (lines 51-60), its string literals concatenated.
ExampleText ==
    <<"{", " ", " ", " ", " ", "\"", "t", "r", "u", "e", "\"", " ", ":", " ",
      "t", "r", "u", "e", ",", " ", " ", " ", " ", "\"", "f", "a", "l", "s",
      "e", "\"", " ", ":", " ", "f", "a", "l", "s", "e", ",", " ", " ", " ",
      " ", "\"", "n", "u", "l", "l", "\"", " ", ":", " ", "n", "u", "l", "l",
      ",", " ", " ", " ", " ", "\"", "a", "r", "r", "a", "y", "\"", " ", ":",
      " ", "[", " ", "1", "2", ",", " ", "1", "2", ",", " ", "{", " ", " ",
      " ", " ", " ", " ", " ", " ", "\"", "i", "n", "n", "e", "r", "\"", " ",
      ":", " ", "1", "2", " ", " ", " ", " ", "}", " ", "]", ",", " ", " ",
      " ", " ", "\"", "o", "b", "j", "e", "c", "t", "\"", " ", ":", " ", "{",
      " ", "\"", "1", "\"", " ", ":", " ", "1", " ", "}", "}">>
\* Further documents main is run on: the scenarios S1-S6, empty nodes,
\* an escaped zero byte, and a text that does not parse.
DocNull ==
    <<"n", "u", "l", "l">>
DocTrue ==
    <<"t", "r", "u", "e">>
DocNumber ==
    <<"1", "2">>
DocString ==
    <<"\"", "h", "i", "\"">>
DocArray ==
    <<"[", "1", ",", " ", "2", ",", " ", "3", "]">>
DocNested ==
    <<"{", "\"", "k", "\"", ":", " ", "[", "1", ",", " ", "{", "\"", "x",
      "\"", ":", " ", "2", "}", "]", "}">>
DocEmpties ==
    <<"[", "[", "]", ",", " ", "{", "}", ",", " ", "\"", "\"", ",", " ", "f",
      "a", "l", "s", "e", "]">>
DocNulByte ==
    <<"{", "\"", "a", "\\", "u", "0", "0", "0", "0", "b", "\"", ":", " ",
      "\"", "a", "\\", "u", "0", "0", "0", "0", "b", "\"", "}">>
DocMalformed ==
    <<"{", "\"", "k", "\"", " ", "1", "}">>

Documents ==
    {ExampleText, DocNull, DocTrue, DocNumber, DocString, DocArray, DocNested,
     DocEmpties, DocNulByte, DocMalformed}

\* Line 62: Json json = json_deserialize(text).
MainDeserialize ==
    /\ mainpc = "L62"
    /\ \E j \in json_deserialize(text) :
          /\ json' = j
          /\ arena' = [state |-> "live", tree |-> j]
    /\ nDeserialize' = nDeserialize + 1
    /\ mainpc' = "L64"
    /\ UNCHANGED <<text, stack, out, fieldReads, derefs, spans, keySpans, visits,
                   maxDepth, calls, outs, nFree, freeArg>>

\* Line 64: json_print(json).
MainPrint ==
    /\ mainpc = "L64"
    /\ CallPrint(json)
    /\ mainpc' = "L66"
    /\ UNCHANGED <<text, json, arena, nDeserialize, nFree, freeArg>>

\* MainFree with lines 64 and 66 swapped: the tree is released before it is
\* printed.
MainFree_BeforePrint ==
    /\ mainpc = "L64"
    /\ nFree = 0
    /\ arena' = json_free(arena, json)
    /\ freeArg' = json
    /\ nFree' = nFree + 1
    /\ UNCHANGED <<mainpc, text, json, stack, out, fieldReads, derefs, spans,
                   keySpans, visits, maxDepth, calls, outs, nDeserialize>>

\* Line 66: json_free(json), once json_print has returned.
MainFree ==
    /\ mainpc = "L66"
    /\ stack = <<>>
    /\ arena' = json_free(arena, json)
    /\ freeArg' = json
    /\ nFree' = nFree + 1
    /\ mainpc' = "L67"
    /\ UNCHANGED <<text, json, stack, out, fieldReads, derefs, spans, keySpans,
                   visits, maxDepth, calls, outs, nDeserialize>>

InitMain ==
    /\ mainpc = "L62"
    /\ text \in Documents
    /\ json = NoJson
    /\ arena = [state |-> "none", tree |-> NoJson]
    /\ stack = <<>>
    /\ out = <<>>
    /\ fieldReads = {}
    /\ derefs = {}
    /\ spans = <<>>
    /\ keySpans = <<>>
    /\ visits = <<>>
    /\ maxDepth = 0
    /\ calls = 0
    /\ outs = <<>>
    /\ nDeserialize = 0
    /\ nFree = 0
    /\ freeArg = NoJson

(***************************************************************************)
(* The program: a run of main on a document, or a run of the harness on a   *)
(* Json value.                                                              *)
(***************************************************************************)
Init == InitMain \/ InitPrint

Next == MainDeserialize \/ MainPrint \/ MainFree \/ HarnessCall \/ json_print

Spec == Init /\ [][Next]_vars

\* A call of json_print is sequential code: while a frame is on the stack,
\* its next step is taken.
FairSpec == Spec /\ WF_vars(json_print)

(***************************************************************************)
(* Reading the record of a run                                              *)
(***************************************************************************)
Root == arena.tree

\* A top-level json_print call has been made and has returned.
PrintReturned == stack = <<>> /\ calls >= 1

\* What the returned call on node p wrote, and what was written for the key
\* of the entry whose value is node p.
Seg(p) == SubSeq(out, spans[p].from + 1, spans[p].to)
KeySeg(p) == SubSeq(out, keySpans[p].from + 1, keySpans[p].to)

FieldsRead(p) == {r.field : r \in {x \in fieldReads : x.path = p}}
PtrsRead(p) == {r.ptr : r \in {x \in derefs : x.path = p}}

RECURSIVE JoinWith(_, _)
JoinWith(parts, sep) ==
    IF parts = <<>> THEN <<>>
    ELSE IF Len(parts) = 1 THEN parts[1]
    ELSE parts[1] \o sep \o JoinWith(Tail(parts), sep)

CommaSpace == <<",", " ">>

\* s is a decimal numeral with exactly FracDigits digits after the point
\* whose value is x ticks rounded to the nearest 10^-FracDigits.
SixDigitDecimal(s, x) ==
    LET neg == s # <<>> /\ s[1] = "-"
        b == IF neg THEN 2 ELSE 1
        dot == Len(s) - FracDigits
        shown == DigitsValue(s, b, dot) * Pow10(FracDigits)
                   + DigitsValue(s, dot + 1, Len(s) + 1)
        a == IF x < 0 THEN -x ELSE x
    IN /\ dot > b
       /\ s[dot] = "."
       /\ \A k \in (b..(dot - 1)) \cup ((dot + 1)..Len(s)) : IsDigit(s[k])
       /\ neg <=> x < 0
       /\ 10 * shown - a \in -5..5

\* The len bytes of an entry's key.
KeyBytes(e) == SubSeq(e.key.buf, 1, e.key.len)

\* The entry whose value is the node at path p.
EntryOf(p) == NodeAt(Root, SubSeq(p, 1, Len(p) - 1)).object.elems[p[Len(p)] + 1]

\* No quote, backslash or control character among the bytes.
CleanBytes(js) == \A k \in 1..js.len : js.buf[k] \notin {"\"", "\\", NUL}

\* A tree of the seven tags whose strings and keys are clean.
RECURSIVE Serializable(_)
Serializable(n) ==
    /\ n.tag \in Tags
    /\ n.tag = "String" => CleanBytes(n.string)
    /\ n.tag = "Array" => \A k \in 1..n.array.len : Serializable(n.array.elems[k])
    /\ n.tag = "Object" =>
          \A k \in 1..n.object.len :
              CleanBytes(n.object.elems[k].key) /\ Serializable(n.object.elems[k].val)

\* No Object has an entry, and no number has a digit finer than 10^-FracDigits.
RECURSIVE Plain(_)
Plain(n) ==
    /\ n.tag = "Number" => n.number % 10 = 0
    /\ n.tag = "Array" => \A k \in 1..n.array.len : Plain(n.array.elems[k])
    /\ n.tag = "Object" => n.object.len = 0

\* The text written so far is a document that parses to n.
ParsesBackTo(n) == ParseDocument(out).ok /\ ParseDocument(out).val = n

\* The paths of the siblings stored after node p.
LaterSiblings(p) ==
    LET parent == SubSeq(p, 1, Len(p) - 1)
        n == Len(Children(NodeAt(Root, parent)))
    IN IF p = <<>> THEN {} ELSE {Append(parent, k) : k \in (p[Len(p)] + 1)..(n - 1)}

RECURSIVE Flatten(_)
Flatten(ss) == IF ss = <<>> THEN <<>> ELSE Head(ss) \o Flatten(Tail(ss))

\* The paths of the nodes of n, rooted at path p, parents before children
\* and children in index order.
RECURSIVE Preorder(_, _)
Preorder(n, p) ==
    <<p>> \o Flatten([k \in 1..Len(Children(n)) |->
                         Preorder(Children(n)[k], Append(p, k - 1))])

\* The number of nodes on the longest path from n down to a leaf.
RECURSIVE Depth(_)
Depth(n) ==
    LET ds == {Depth(Children(n)[k]) : k \in 1..Len(Children(n))}
    IN 1 + (IF ds = {} THEN 0 ELSE CHOOSE d \in ds : \A e \in ds : e <= d)

\* The output of node p encloses its children's, which follow one another.
DocumentOrder(p) ==
    LET n == Len(Children(NodeAt(Root, p)))
    IN /\ \A k \in 0..(n - 1) :
             /\ spans[p].from < spans[Append(p, k)].from
             /\ spans[Append(p, k)].to < spans[p].to
       /\ \A k \in 0..(n - 2) : spans[Append(p, k)].to <= spans[Append(p, k + 1)].from

(***************************************************************************)
(* C1: in every run of main the tree is made by exactly one                 *)
(* json_deserialize call, json_free is called exactly once, on that same    *)
(* root, only after json_print has returned, and nothing of the tree is     *)
(* read once it is freed.                                                   *)
(***************************************************************************)
C1_Lifecycle ==
    /\ nDeserialize <= 1
    /\ nFree <= 1
    /\ mainpc \in {"L64", "L66", "L67"} => nDeserialize = 1
    /\ mainpc = "L67" => nFree = 1
    /\ nFree = 1 =>
          /\ freeArg = Root
          /\ arena.state = "freed"
          /\ calls = 1
          /\ stack = <<>>
    /\ calls >= 1 /\ mainpc # "harness" => nDeserialize = 1
    /\ \A d \in derefs : d.live

C1_Witness ==
    /\ mainpc = "L67"
    /\ text = ExampleText
    /\ nFree = 1
    /\ derefs # {}

(***************************************************************************)
(* C2: an Array node of n elements is written as '[', the renderings of     *)
(* elements 0..n-1 in index order with exactly one ", " between             *)
(* consecutive ones, and ']'; for n = 0 that is exactly "[]".               *)
(***************************************************************************)
C2_ArrayRendering ==
    \A p \in DOMAIN spans :
        LET n == NodeAt(Root, p)
        IN n.tag = "Array" =>
              /\ \A k \in 0..(n.array.len - 1) : Append(p, k) \in DOMAIN spans
              /\ Seg(p) = <<"[">>
                            \o JoinWith([k \in 1..n.array.len |-> Seg(Append(p, k - 1))],
                                        CommaSpace)
                            \o <<"]">>
              /\ n.array.len = 0 => Seg(p) = <<"[", "]">>

C2_Witness ==
    \E p \in DOMAIN spans :
        /\ NodeAt(Root, p).tag = "Array"
        /\ NodeAt(Root, p).array.len >= 2
        /\ Seg(Append(p, 0)) # <<>>

(***************************************************************************)
(* C3: an Object node of n entries is written as '{', then per entry in     *)
(* stored order the key's bytes without quotes, " : " and the value's       *)
(* rendering, with exactly one ", " between consecutive entries, and '}';   *)
(* duplicate keys are each written; for n = 0 that is exactly "{}".         *)
(***************************************************************************)
C3_ObjectRendering ==
    \A p \in DOMAIN spans :
        LET n == NodeAt(Root, p)
        IN n.tag = "Object" =>
              /\ \A k \in 0..(n.object.len - 1) : Append(p, k) \in DOMAIN spans
              /\ Seg(p) = <<"{">>
                            \o JoinWith([k \in 1..n.object.len |->
                                            KeyBytes(n.object.elems[k])
                                                \o <<" ", ":", " ">>
                                                \o Seg(Append(p, k - 1))],
                                        CommaSpace)
                            \o <<"}">>
              /\ n.object.len = 0 => Seg(p) = <<"{", "}">>

(***************************************************************************)
(* C4: a String node whose buffer holds len bytes is written as a quote,    *)
(* exactly those len bytes, and a quote, and an object key as exactly its   *)
(* len bytes, also when a zero byte is among them.                          *)
(***************************************************************************)
C4_StringBytes ==
    /\ \A p \in DOMAIN spans :
          LET n == NodeAt(Root, p)
          IN n.tag = "String" =>
                Seg(p) = <<"\"">> \o SubSeq(n.string.buf, 1, n.string.len) \o <<"\"">>
    /\ \A p \in DOMAIN keySpans : KeySeg(p) = KeyBytes(EntryOf(p))

(***************************************************************************)
(* C5 as claimed: for every tree whose strings and keys hold no quote,      *)
(* backslash or control character, parsing what json_print wrote gives a    *)
(* tree equal to it.                                                        *)
(***************************************************************************)
C5_RoundTrip == PrintReturned /\ Serializable(Root) => ParsesBackTo(Root)

(***************************************************************************)
(* C5 as amended: for every such tree in which moreover every Object is     *)
(* empty and every number has at most six fractional digits, parsing what   *)
(* json_print wrote gives a tree equal to it.                               *)
(***************************************************************************)
C5_RoundTripPlain ==
    PrintReturned /\ Serializable(Root) /\ Plain(Root) => ParsesBackTo(Root)

C5_Witness ==
    /\ PrintReturned
    /\ Serializable(Root) /\ Plain(Root)
    /\ Root.tag = "Array"
    /\ \E k \in 1..Root.array.len : Root.array.elems[k].tag = "String"
    /\ \E k \in 1..Root.array.len : Root.array.elems[k].tag = "Number"
    /\ ParsesBackTo(Root)

(***************************************************************************)
(* C6: json_print never reads through the elems or buf pointer of an        *)
(* Array, Object or String node whose len is 0.                             *)
(***************************************************************************)
C6_NoReadOfEmpty ==
    \A d \in derefs :
        d.ptr \in {"array.elems", "object.elems", "string.buf"} => d.len > 0

(***************************************************************************)
(* C7: a node whose tag is none of the seven is skipped: its call writes    *)
(* nothing, reads no payload field, returns, and the siblings after it      *)
(* are still printed.                                                       *)
(***************************************************************************)
C7_UnknownTagSkipped ==
    \A p \in DOMAIN spans :
        NodeAt(Root, p).tag \notin Tags =>
            /\ spans[p].from = spans[p].to
            /\ FieldsRead(p) = {"tag"}
            /\ PtrsRead(p) = {}
            /\ PrintReturned =>
                  \A q \in LaterSiblings(p) :
                      q \in DOMAIN spans /\ spans[q].from >= spans[p].to

C7_Witness ==
    /\ PrintReturned
    /\ \E p \in DOMAIN spans :
          /\ NodeAt(Root, p).tag \notin Tags
          /\ \E q \in LaterSiblings(p) : Seg(q) # <<>>

(***************************************************************************)
(* C8: json_print only reads: while it runs the tree (tags, payloads,       *)
(* lens, pointers, string bytes) and main's root stay as they are, so       *)
(* repeated calls on one root write the same output, and the root handed    *)
(* to json_free is the one json_deserialize returned.                       *)
(***************************************************************************)
C8_ReadOnly ==
    /\ [][stack # <<>> => (arena' = arena /\ json' = json)]_vars
    /\ [](PrintReturned => \A k \in 1..Len(outs) : outs[k] = out)
    /\ [](nFree >= 1 => freeArg = json /\ json = Root)

C8_Witness ==
    /\ PrintReturned
    /\ calls >= 2
    /\ Root.tag = "Array"
    /\ Root.array.len >= 1
    /\ outs[1] = out

(***************************************************************************)
(* C9: scalars are printed from the tag alone: Null as "null", True as      *)
(* "true", False as "false", a Number as its decimal value with exactly     *)
(* six fractional digits (12 as "12.000000"); no payload field is read      *)
(* but the number of a Number.                                              *)
(***************************************************************************)
C9_ScalarRendering ==
    \A p \in DOMAIN spans :
        LET n == NodeAt(Root, p)
        IN /\ n.tag = "Null" =>
                 Seg(p) = <<"n", "u", "l", "l">> /\ FieldsRead(p) = {"tag"}
           /\ n.tag = "True" =>
                 Seg(p) = <<"t", "r", "u", "e">> /\ FieldsRead(p) = {"tag"}
           /\ n.tag = "False" =>
                 Seg(p) = <<"f", "a", "l", "s", "e">> /\ FieldsRead(p) = {"tag"}
           /\ n.tag = "Number" =>
                 /\ SixDigitDecimal(Seg(p), n.number)
                 /\ FieldsRead(p) = {"tag", "number"}
                 /\ n.number = 12 * TicksPerUnit =>
                       Seg(p) = <<"1", "2", ".", "0", "0", "0", "0", "0", "0">>
           /\ n.tag \in {"Null", "True", "False", "Number"} => PtrsRead(p) = {}

C9_Witness ==
    /\ text = DocNumber
    /\ PrintReturned
    /\ out = <<"1", "2", ".", "0", "0", "0", "0", "0", "0">>

(***************************************************************************)
(* C10: on a finite tree json_print terminates; it enters every node of     *)
(* the tree exactly once, in depth-first document order (a parent's         *)
(* opening bracket before its children, child i complete before child       *)
(* i+1, the closing bracket after the last child); and the largest number   *)
(* of frames alive at once is the nesting depth of the tree (the number of  *)
(* nodes on its longest path from the root).                                *)
(***************************************************************************)
C10_DepthFirstTermination ==
    /\ (stack # <<>>) ~> (stack = <<>>)
    /\ [](Len(stack) <= Depth(Root))
    /\ [](PrintReturned =>
            /\ visits = Preorder(Root, <<>>)
            /\ DOMAIN spans = {visits[k] : k \in 1..Len(visits)}
            /\ \A p \in DOMAIN spans : DocumentOrder(p)
            /\ maxDepth = Depth(Root))

C10_Witness ==
    /\ PrintReturned
    /\ Depth(Root) = 3
    /\ Len(visits) >= 4

=============================================================================
